---- MODULE Spec2Model ----
(***************************************************************************)
(* A model of object_store/src/aws/client.rs: the S3 client that builds,   *)
(* signs and sends one request per storage operation, the paginated list   *)
(* built on list_request, and the create/complete multipart calls.         *)
(***************************************************************************)
EXTENDS Integers, Sequences, FiniteSets, TLC

\* ---------------------------------------------------------------- bounds
MaxRetries == 1
MaxPages == 3
MaxParts == 2
MaxLen == 3

\* ------------------------------------------------------------- Option<T>
None == <<>>
Some(x) == <<x>>
IsSome(o) == Len(o) = 1
Unwrap(o) == o[1]

\* ------------------------------------------------------------- constants
STORE == "S3"
DELIMITER == "/"
Tasks == {"t1", "t2"}
PathA == <<"a">>
PathB == <<"b", " ">>
Paths == {PathA, PathB}
Credentials == <<"C1", "C2">>
UploadIdSeq == <<"u1", "u2">>
UploadIds == {UploadIdSeq[i] : i \in 1..Len(UploadIdSeq)}
ETags == {"E1", "E2"}
Payloads == {"x"}
Ranges == {None, Some("bytes=0-1")}
Queries == {<<>>, << <<"versionId", "v1">> >>}

RECURSIVE SeqsUpTo(_, _)
SeqsUpTo(S, n) ==
    IF n = 0 THEN {<<>>}
    ELSE LET shorter == SeqsUpTo(S, n - 1)
         IN shorter \cup {Append(s, x) : s \in {q \in shorter : Len(q) = n - 1}, x \in S}

\* crate::multipart::UploadPart, as complete_multipart reads it
UploadPart == [content_id : ETags]
PartLists == SeqsUpTo(UploadPart, MaxParts)

VARIABLES
    config,     \* S3Config, fixed at construction
    provider,   \* index in Credentials of the snapshot the provider currently serves
    allocated,  \* how many upload ids the server has issued
    uploads,    \* per upload id, the multipart session as the calls' results show it
    op,         \* per task, the client call in progress
    walk        \* per task, the pagination stream it holds

vars == <<config, provider, allocated, uploads, op, walk>>

\* ---------------------------------------------------------- path encoder
\* STRICT_PATH_ENCODE_SET leaves alphanumerics, "-", ".", "_", "~" and "/" as they are
Unreserved == {"a", "b", "0", "2", "3", "5", "F", "/", "-", ".", "_", "~"}

HexOf(c) ==
    CASE c = " " -> <<"2", "0">>
      [] c = "%" -> <<"2", "5">>
      [] c = "?" -> <<"3", "F">>

RECURSIVE utf8_percent_encode(_)
utf8_percent_encode(s) ==
    IF s = <<>> THEN <<>>
    ELSE (IF Head(s) \in Unreserved THEN <<Head(s)>> ELSE <<"%">> \o HexOf(Head(s)))
         \o utf8_percent_encode(Tail(s))

\* a path put into the request as it is
encode_path_unencoded(path) == path

encode_path(path) == utf8_percent_encode(path)

path_url(path) == <<config.bucket_endpoint, "/">> \o encode_path(path)

\* ------------------------------------------------------------- requests
NoRequest ==
    [method |-> "", url |-> <<>>, query |-> <<>>, headers |-> <<>>,
     body |-> None, authorization |-> None]

Builder(method, url) == [NoRequest EXCEPT !.method = method, !.url = url]

with_get_options(builder, range) ==
    IF IsSome(range)
    THEN [builder EXCEPT !.headers = Append(@, <<"range", Unwrap(range)>>)]
    ELSE builder

\* the signer: stamps the request with the credential and the time of signing
with_aws_sigv4(builder, credential, region, service, sign_payload, payload_sha256, date) ==
    [builder EXCEPT !.authorization =
        Some([credential |-> credential, region |-> region, service |-> service,
              sign_payload |-> sign_payload, payload_sha256 |-> payload_sha256,
              date |-> date])]

digest(checksum, bytes) == <<checksum, bytes>>
\* the kinds of checksum: the one used for payload-hash signing, and another
Checksums == {"SHA256", "CRC32C"}
header_name(checksum) ==
    IF checksum = "SHA256" THEN "x-amz-checksum-sha256" ELSE "x-amz-checksum-crc32c"
BASE64_STANDARD_encode(d) == <<"base64">> \o d
get_content_type(path) == IF path = PathA THEN Some("text/plain") ELSE None

\* --------------------------------------------- one request per operation
get_request_builder(a) ==
    with_get_options(Builder(IF a.head THEN "HEAD" ELSE "GET", path_url(a.path)), a.options)

\* a payload hash taken from the digest of any checksum kind
put_payload_sha256_any_kind(a) ==
    IF IsSome(a.bytes) /\ IsSome(config.checksum)
    THEN Some(digest(Unwrap(config.checksum), Unwrap(a.bytes)))
    ELSE None

put_payload_sha256(a) ==
    IF IsSome(a.bytes) /\ IsSome(config.checksum) /\ Unwrap(config.checksum) = "SHA256"
    THEN Some(digest(Unwrap(config.checksum), Unwrap(a.bytes)))
    ELSE None

put_request_builder(a) ==
    LET b0 == Builder("PUT", path_url(a.path))
        b1 == IF IsSome(a.bytes)
              THEN LET b == IF IsSome(config.checksum)
                            THEN [b0 EXCEPT !.headers = Append(@,
                                    <<header_name(Unwrap(config.checksum)),
                                      BASE64_STANDARD_encode(
                                          digest(Unwrap(config.checksum), Unwrap(a.bytes)))>>)]
                            ELSE b0
                   IN [b EXCEPT !.body = a.bytes]
              ELSE b0
        b2 == IF IsSome(get_content_type(a.path))
              THEN [b1 EXCEPT !.headers = Append(@, <<"content-type", Unwrap(get_content_type(a.path))>>)]
              ELSE b1
    IN [b2 EXCEPT !.query = a.query]

delete_request_builder(a) ==
    [Builder("DELETE", path_url(a.path)) EXCEPT !.query = a.query]

copy_request_builder(a) ==
    [Builder("PUT", path_url(a.to)) EXCEPT
        !.headers = << <<"x-amz-copy-source", <<config.bucket, "/">> \o encode_path(a.from)>> >>]

\* a query that leaves the prefix out once a token is sent
list_request_query_token_only(prefix, delimiter, token, offset) ==
    (IF IsSome(token) THEN << <<"continuation-token", Unwrap(token)>> >> ELSE <<>>)
    \o (IF delimiter THEN << <<"delimiter", <<DELIMITER>> >> >> ELSE <<>>)
    \o << <<"list-type", <<"2">> >> >>
    \o (IF IsSome(prefix) /\ ~IsSome(token) THEN << <<"prefix", Unwrap(prefix)>> >> ELSE <<>>)
    \o (IF IsSome(offset) THEN << <<"start-after", Unwrap(offset)>> >> ELSE <<>>)

\* a query that never carries the token
list_request_query_without_token(prefix, delimiter, token, offset) ==
    (IF delimiter THEN << <<"delimiter", <<DELIMITER>> >> >> ELSE <<>>)
    \o << <<"list-type", <<"2">> >> >>
    \o (IF IsSome(prefix) THEN << <<"prefix", Unwrap(prefix)>> >> ELSE <<>>)
    \o (IF IsSome(offset) THEN << <<"start-after", Unwrap(offset)>> >> ELSE <<>>)

list_request_query(prefix, delimiter, token, offset) ==
    (IF IsSome(token) THEN << <<"continuation-token", Unwrap(token)>> >> ELSE <<>>)
    \o (IF delimiter THEN << <<"delimiter", <<DELIMITER>> >> >> ELSE <<>>)
    \o << <<"list-type", <<"2">> >> >>
    \o (IF IsSome(prefix) THEN << <<"prefix", Unwrap(prefix)>> >> ELSE <<>>)
    \o (IF IsSome(offset) THEN << <<"start-after", Unwrap(offset)>> >> ELSE <<>>)

list_request_builder(a) ==
    [Builder("GET", <<config.bucket_endpoint>>) EXCEPT
        !.query = list_request_query(a.prefix, a.delimiter, a.token, a.offset)]

create_multipart_builder(a) ==
    Builder("POST", path_url(a.location) \o <<"?uploads=">>)

\* a numbering that keeps enumerate()'s 0-based index
complete_multipart_parts_zero_based(location, upload_id, parts) ==
    [i \in 1..Len(parts) |->
        LET part_idx == i - 1
        IN [e_tag |-> parts[i].content_id, part_number |-> part_idx]]

\* a numbering that goes on from a completion of the same upload that failed
complete_multipart_parts_continued(location, upload_id, parts) ==
    [i \in 1..Len(parts) |->
        [e_tag |-> parts[i].content_id,
         part_number |-> IF uploads[upload_id].failed THEN i + 1 ELSE i]]

\* a numbering that counts down from the number of parts
complete_multipart_parts_reversed(location, upload_id, parts) ==
    [i \in 1..Len(parts) |->
        LET part_idx == i - 1
        IN [e_tag |-> parts[i].content_id, part_number |-> Len(parts) - part_idx]]

\* the parts of CompleteMultipart: enumerate() counts from 0, position i of
\* the sequence is part_idx = i - 1
complete_multipart_parts(location, upload_id, parts) ==
    [i \in 1..Len(parts) |->
        LET part_idx == i - 1
        IN [e_tag |-> parts[i].content_id, part_number |-> part_idx + 1]]

\* quick_xml::se::to_string of CompleteMultipart: each Part with its ETag
\* element, then its PartNumber element
RECURSIVE se_parts(_)
se_parts(part) ==
    IF part = <<>> THEN <<>>
    ELSE <<"<Part>", "<ETag>", Head(part).e_tag, "<PartNumber>", ToString(Head(part).part_number)>>
         \o se_parts(Tail(part))

to_string(request) == <<"<CompleteMultipartUpload>">> \o se_parts(request.part)

\* the body complete_multipart serialises before it fetches the credential
complete_multipart_body(location, upload_id, parts) ==
    to_string([part |-> complete_multipart_parts(location, upload_id, parts)])

complete_multipart_builder(a) ==
    [Builder("POST", path_url(a.location)) EXCEPT
        !.query = << <<"uploadId", a.upload_id>> >>,
        !.body = Some(a.body)]

RequestBuilder(o) ==
    CASE o.kind = "get_request"        -> get_request_builder(o.args)
      [] o.kind = "put_request"        -> put_request_builder(o.args)
      [] o.kind = "delete_request"     -> delete_request_builder(o.args)
      [] o.kind = "copy_request"       -> copy_request_builder(o.args)
      [] o.kind = "list_request"       -> list_request_builder(o.args)
      [] o.kind = "create_multipart"   -> create_multipart_builder(o.args)
      [] o.kind = "complete_multipart" -> complete_multipart_builder(o.args)

PayloadHash(o) == IF o.kind = "put_request" THEN put_payload_sha256(o.args) ELSE None

\* --------------------------------------------------------------- errors
RetryError(status, retries) == [type |-> "retry", status |-> status, retries |-> retries]

\* the error get_credential returns when the provider has no credential
ProviderError ==
    [variant |-> "Generic", store |-> STORE, path |-> None, source |-> [type |-> "credential"]]

\* the .context(...) of each operation's send_retry
RequestError(o, source) ==
    CASE o.kind = "get_request" ->
            [variant |-> "GetRequest", source |-> source, path |-> Some(o.args.path)]
      [] o.kind = "put_request" ->
            [variant |-> "PutRequest", source |-> source, path |-> Some(o.args.path)]
      [] o.kind = "delete_request" ->
            [variant |-> "DeleteRequest", source |-> source, path |-> Some(o.args.path)]
      [] o.kind = "copy_request" ->
            [variant |-> "CopyRequest", source |-> source, path |-> Some(o.args.from)]
      [] o.kind = "list_request" ->
            [variant |-> "ListRequest", source |-> source, path |-> None]
      [] o.kind = "create_multipart" ->
            [variant |-> "CreateMultipartRequest", source |-> source, path |-> None]
      [] o.kind = "complete_multipart" ->
            [variant |-> "CompleteMultipartRequest", source |-> source, path |-> None]

\* the .context(...) of .bytes()
ResponseBodyError(o) ==
    [variant |-> IF o.kind = "list_request" THEN "ListResponseBody"
                 ELSE "CreateMultipartResponseBody",
     source |-> [type |-> "reqwest"], path |-> None]

\* the .context(...) of quick_xml::de::from_reader
InvalidResponseError(o) ==
    [variant |-> IF o.kind = "list_request" THEN "InvalidListResponse"
                 ELSE "InvalidMultipartResponse",
     source |-> [type |-> "quick_xml"], path |-> None]

\* the error of ListResponse::try_into, already a crate::Error
ConversionError ==
    [variant |-> "InvalidPath", store |-> "", path |-> None, source |-> [type |-> "path"]]

\* retry::Error::error(store, path): built from its three arguments alone
retry_error(source, store, path) ==
    [variant |-> "Generic", store |-> store, path |-> Some(path), source |-> source]

\* impl From<Error> for crate::Error
From(err) ==
    IF err.variant \in {"GetRequest", "DeleteRequest", "CopyRequest", "PutRequest"}
    THEN retry_error(err.source, STORE, Unwrap(err.path))
    ELSE [variant |-> "Generic", store |-> STORE, path |-> None, source |-> err]

Ok(v) == [ok |-> TRUE, value |-> v]
Err(e) == [ok |-> FALSE, error |-> e]

\* ------------------------------------------------------- transport, server
Outcomes == {"ok", "retryable", "terminal", "lost"}
BodyOutcomes == {"read_error", "malformed", "bad_key", "valid"}

StatusOf(outcome) ==
    CASE outcome = "ok"        -> 200
      [] outcome = "retryable" -> 503
      [] outcome = "terminal"  -> 404
      [] outcome = "lost"      -> 0

QueryGet(q, key) ==
    LET idx == {i \in 1..Len(q) : q[i][1] = key}
    IN IF idx = {} THEN None ELSE Some(q[CHOOSE i \in idx : TRUE][2])

\* the listing the server holds for a walk: `pages` pages, page k answered
\* to the request carrying token k - 1, with token k while more pages remain
TokenAfter(k) == <<"after", ToString(k)>>

\* the token the server issues after page k of the listing a query asks for
TokenFor(query, k) ==
    LET prefix == QueryGet(query, "prefix")
    IN TokenAfter(k) \o (IF IsSome(prefix) THEN Unwrap(prefix) ELSE <<>>)

\* IsTruncated is the server's to set: nothing ties it to the token
ServerListBody(query, pages, is_truncated) ==
    LET token == QueryGet(query, "continuation-token")
        k == IF IsSome(token)
             THEN 1 + CHOOSE j \in 1..(MaxPages + 1) :
                        TokenAfter(j) = SubSeq(Unwrap(token), 1, 2)
             ELSE 1
    IN [contents |-> <<k>>,
        is_truncated |-> is_truncated,
        next_continuation_token |-> IF k < pages THEN Some(TokenFor(query, k)) ELSE None]

\* ------------------------------------------------------------ call state
IdleOp ==
    [kind |-> "none", pc |-> "idle", args |-> <<>>, credential |-> None,
     request |-> NoRequest, retries |-> 0, now |-> 0, attempts |-> <<>>,
     response |-> None, body |-> "", result |-> None]

NewOp(kind, args) == [IdleOp EXCEPT !.kind = kind, !.args = args, !.pc = "credential"]

NoWalk ==
    [status |-> "None", state |-> [prefix |-> None, offset |-> None], delimiter |-> FALSE,
     token |-> None, seed |-> [prefix |-> None, offset |-> None, delimiter |-> FALSE],
     pages |-> 0, polled |-> 0, requests |-> <<>>, responses |-> <<>>, yielded |-> <<>>]

Ready(t) == op[t].pc = "idle"
Walking(t) == walk[t].status \in {"Start", "HasMore"}

\* crate::util::format_prefix: a non-empty prefix gets the trailing delimiter
format_prefix(prefix) ==
    IF IsSome(prefix) /\ Unwrap(prefix) /= <<>>
    THEN Some(Unwrap(prefix) \o <<DELIMITER>>)
    ELSE None

\* ListResponse -> ListResult
try_into(response) == [objects |-> response.contents, common_prefixes |-> <<>>]

\* a list_request that hands back the page without its token
list_request_ok_token_lost(response) ==
    LET taken == [response EXCEPT !.next_continuation_token = None]
    IN [result |-> try_into(taken), token |-> taken.next_continuation_token]

\* a list_request that keeps the token only of a page that says it is truncated
list_request_ok_by_is_truncated(response) ==
    LET token == IF response.is_truncated THEN response.next_continuation_token ELSE None
        taken == [response EXCEPT !.next_continuation_token = None]
    IN [result |-> try_into(taken), token |-> token]

\* list_request once the body is parsed: take() the token, convert the rest
list_request_ok(response) ==
    LET token == response.next_continuation_token
        taken == [response EXCEPT !.next_continuation_token = None]
    IN [result |-> try_into(taken), token |-> token]

\* the query of a part upload: the caller's part number and the upload id
PartQuery(n, upload_id) == << <<"partNumber", ToString(n)>>, <<"uploadId", upload_id>> >>

\* the bytes of part n of the object being uploaded
PartPayload(n) ==
    CASE n = 1 -> "x"
      [] n = 2 -> "y"
      [] OTHER -> "z"

\* the part numbers a caller uploads under
PartNumbers == {1, 2}

IsPartUpload(o) ==
    /\ o.kind = "put_request"
    /\ IsSome(QueryGet(o.args.query, "partNumber"))
    /\ IsSome(QueryGet(o.args.query, "uploadId"))

PartNumberOf(o) ==
    CHOOSE n \in PartNumbers : ToString(n) = Unwrap(QueryGet(o.args.query, "partNumber"))

\* the multipart session as the results of create and complete show it, and
\* the parts the caller has had accepted: for each part number the entity tag
\* of the put that uploaded it
UploadsAfter(o, res) ==
    CASE o.kind = "create_multipart" /\ res.ok ->
            [uploads EXCEPT ![res.value].state = "Created"]
      [] IsPartUpload(o) /\ res.ok ->
            [uploads EXCEPT ![Unwrap(QueryGet(o.args.query, "uploadId"))].parts[PartNumberOf(o)] =
                                Some(res.value.e_tag)]
      [] o.kind = "complete_multipart" /\ res.ok ->
            [uploads EXCEPT ![o.args.upload_id].state = "Completed"]
      [] o.kind = "complete_multipart" /\ ~res.ok ->
            [uploads EXCEPT ![o.args.upload_id].failed = TRUE]
      [] OTHER -> uploads

\* a closure that turns a failed list_request into an empty page and asks again
list_paginated_closure_skipping_errors(state, token, res) ==
    IF res.ok
    THEN Ok([page |-> res.value.result, state |-> state, token |-> res.value.token])
    ELSE Ok([page |-> [objects |-> <<>>, common_prefixes |-> <<>>],
             state |-> state, token |-> token])

\* the closure list_paginated hands to stream_paginated, called with the
\* stream's state and token, once its list_request has returned res:
\* `.await?`, then Ok((r, (prefix, offset), next_token))
list_paginated_closure(state, token, res) ==
    IF res.ok
    THEN Ok([page |-> res.value.result, state |-> state, token |-> res.value.token])
    ELSE res

\* stream_paginated's step once the closure of list_paginated has returned:
\* the closure hands back the page, the (prefix, offset) it was given and the
\* next token; the stream yields the page and goes to HasMore or Done, and
\* an error is yielded as the last item
StreamAfter(w, o, res) ==
    LET r == list_paginated_closure([prefix |-> o.args.prefix, offset |-> o.args.offset],
                                    o.args.token, res)
        received == IF res.ok
                    THEN Append(w.responses,
                                [is_truncated |-> Unwrap(o.response).is_truncated,
                                 next_continuation_token |->
                                     Unwrap(o.response).next_continuation_token])
                    ELSE w.responses
    IN IF r.ok
       THEN [w EXCEPT
               !.yielded = Append(@, Ok(r.value.page)),
               !.responses = received,
               !.state = r.value.state,
               !.token = r.value.token,
               !.status = IF IsSome(r.value.token) THEN "HasMore" ELSE "Done"]
       ELSE [w EXCEPT !.yielded = Append(@, r), !.status = "Done"]

\* the call of task t returns res
Return(t, o, res) ==
    /\ op' = [op EXCEPT ![t] = [o EXCEPT !.pc = "done", !.result = Some(res)]]
    /\ uploads' = UploadsAfter(o, res)
    /\ walk' = IF o.kind = "list_request" /\ Walking(t)
               THEN [walk EXCEPT ![t] = StreamAfter(walk[t], o, res)]
               ELSE walk

\* ---------------------------------------------------------------- calls
Call(t, kind, args) ==
    /\ Ready(t)
    /\ walk[t].status = "None"
    /\ op' = [op EXCEPT ![t] = NewOp(kind, args)]
    /\ UNCHANGED <<config, provider, allocated, uploads, walk>>

get_request(t, path, options, head) ==
    Call(t, "get_request", [path |-> path, options |-> options, head |-> head])

put_request(t, path, bytes, query) ==
    Call(t, "put_request", [path |-> path, bytes |-> bytes, query |-> query])

delete_request(t, path, query) ==
    Call(t, "delete_request", [path |-> path, query |-> query])

copy_request(t, from, to) ==
    Call(t, "copy_request", [from |-> from, to |-> to])

create_multipart(t, location) ==
    Call(t, "create_multipart", [location |-> location])

complete_multipart(t, location, upload_id, parts) ==
    Call(t, "complete_multipart",
         [location |-> location, upload_id |-> upload_id, parts |-> parts,
          body |-> complete_multipart_body(location, upload_id, parts)])

\* a list_paginated that starts the first list_request when it builds the stream
list_paginated_eager(t, prefix, delimiter, offset, pages) ==
    /\ Ready(t)
    /\ walk[t].status = "None"
    /\ walk' = [walk EXCEPT ![t] =
            [NoWalk EXCEPT
                !.status = "Start",
                !.state = [prefix |-> format_prefix(prefix), offset |-> offset],
                !.delimiter = delimiter,
                !.seed = [prefix |-> format_prefix(prefix), offset |-> offset,
                          delimiter |-> delimiter],
                !.pages = pages]]
    /\ op' = [op EXCEPT ![t] =
            NewOp("list_request",
                  [prefix |-> format_prefix(prefix), delimiter |-> delimiter,
                   token |-> None, offset |-> offset])]
    /\ UNCHANGED <<config, provider, allocated, uploads>>

\* list_paginated builds the stream; nothing is sent until it is polled.
\* The stream's state is (format_prefix(prefix), offset.to_string()); a path
\* and its string are the same characters. `pages` is the length of the
\* listing the server holds for this walk.
list_paginated(t, prefix, delimiter, offset, pages) ==
    /\ Ready(t)
    /\ walk[t].status = "None"
    /\ walk' = [walk EXCEPT ![t] =
            [NoWalk EXCEPT
                !.status = "Start",
                !.state = [prefix |-> format_prefix(prefix), offset |-> offset],
                !.delimiter = delimiter,
                !.seed = [prefix |-> format_prefix(prefix), offset |-> offset,
                          delimiter |-> delimiter],
                !.pages = pages]]
    /\ UNCHANGED <<config, provider, allocated, uploads, op>>

\* the consumer drops the stream
drop_stream(t) ==
    /\ Ready(t)
    /\ walk[t].status /= "None"
    /\ walk' = [walk EXCEPT ![t] = NoWalk]
    /\ UNCHANGED <<config, provider, allocated, uploads, op>>

\* a poll that reads the token from one cursor kept for the whole client
poll_next_shared_cursor(t) ==
    /\ Ready(t)
    /\ Walking(t)
    /\ op' = [op EXCEPT ![t] =
            NewOp("list_request",
                  [prefix |-> walk[t].state.prefix, delimiter |-> walk[t].delimiter,
                   token |-> walk["t1"].token, offset |-> walk[t].state.offset])]
    /\ walk' = [walk EXCEPT ![t].polled = @ + 1]
    /\ UNCHANGED <<config, provider, allocated, uploads>>

\* the consumer polls the stream: the closure calls list_request with the
\* stream's (prefix, offset), the captured delimiter and the current token
poll_next(t) ==
    /\ Ready(t)
    /\ Walking(t)
    /\ op' = [op EXCEPT ![t] =
            NewOp("list_request",
                  [prefix |-> walk[t].state.prefix, delimiter |-> walk[t].delimiter,
                   token |-> walk[t].token, offset |-> walk[t].state.offset])]
    /\ walk' = [walk EXCEPT ![t].polled = @ + 1]
    /\ UNCHANGED <<config, provider, allocated, uploads>>

\* ---------------------------------------------------------------- steps
\* a credential failure reported as a failure of the request
on_credential_error_as_request(o, e) == Err(From(RequestError(o, RetryError(0, 0))))

\* `self.get_credential().await?`
on_credential_error(o, e) == Err(e)

\* the first await of every operation: fetch the credential; on success build
\* the request and sign it, and hand it to send_retry
get_credential(t) ==
    LET o == op[t] IN
    /\ o.pc = "credential"
    /\ \E available \in BOOLEAN :
        IF available
        THEN LET credential == Credentials[provider]
                 request == with_aws_sigv4(RequestBuilder(o), credential, config.region,
                                           "s3", config.sign_payload, PayloadHash(o), o.now)
             IN /\ op' = [op EXCEPT ![t] = [o EXCEPT !.credential = Some(credential),
                                                      !.request = request,
                                                      !.pc = "send"]]
                /\ walk' = IF o.kind = "list_request" /\ Walking(t)
                           THEN [walk EXCEPT ![t].requests = Append(@, request.query)]
                           ELSE walk
                /\ UNCHANGED uploads
        ELSE Return(t, o, on_credential_error(o, ProviderError))
    /\ UNCHANGED <<config, provider, allocated>>

\* the entity tag the server gives a payload
ETagOf(bytes) ==
    CASE bytes = None      -> "E0"
      [] bytes = Some("x") -> "E1"
      [] bytes = Some("y") -> "E2"
      [] OTHER             -> "E3"

\* what the operation returns once send_retry has succeeded and no body is read:
\* get_request and put_request hand back the Response, the others ()
ResponseValue(o) ==
    CASE o.kind = "get_request" -> [status |-> 200, e_tag |-> "E1"]
      [] o.kind = "put_request" -> [status |-> 200, e_tag |-> ETagOf(o.args.bytes)]
      [] OTHER                  -> "()"

\* a failure of send_retry taken for a success
on_send_retry_error_ignored(o, source) == Ok(ResponseValue(o))

\* `.send_retry(..).await.context(XxxSnafu { .. })?`
on_send_retry_error(o, source) == Err(From(RequestError(o, source)))

ReadsBody(o) == o.kind \in {"list_request", "create_multipart"}

\* one attempt of send_retry: the request it was handed is sent as it is
send_retry(t) ==
    LET o == op[t] IN
    /\ o.pc = "send"
    /\ \E outcome \in Outcomes,
          is_truncated \in (IF o.kind = "list_request" THEN BOOLEAN ELSE {FALSE}) :
        LET attempt == [authorization |-> o.request.authorization, at |-> o.now + 1,
                        current |-> Credentials[provider], status |-> StatusOf(outcome)]
            o1 == [o EXCEPT !.attempts = Append(@, attempt), !.now = @ + 1]
            allocates == o.kind = "create_multipart" /\ outcome \in {"ok", "lost"}
            failure == on_send_retry_error(o, RetryError(StatusOf(outcome), o.retries))
        IN /\ allocates => allocated < Len(UploadIdSeq)
           /\ allocated' = IF allocates THEN allocated + 1 ELSE allocated
           /\ CASE outcome = "ok" /\ ReadsBody(o) ->
                    /\ op' = [op EXCEPT ![t] =
                            [o1 EXCEPT
                                !.pc = "bytes",
                                !.response =
                                    IF o.kind = "list_request"
                                    THEN Some(ServerListBody(o.request.query, walk[t].pages,
                                                             is_truncated))
                                    ELSE Some([upload_id |-> UploadIdSeq[allocated + 1]])]]
                    /\ UNCHANGED <<uploads, walk>>
                [] outcome = "ok" /\ ~ReadsBody(o) ->
                    Return(t, o1, Ok(ResponseValue(o)))
                [] outcome \in {"retryable", "lost"} /\ o.retries < config.retry_config.max_retries ->
                    /\ op' = [op EXCEPT ![t] = [o1 EXCEPT !.retries = @ + 1]]
                    /\ UNCHANGED <<uploads, walk>>
                [] OTHER ->
                    Return(t, o1, failure)
    /\ UNCHANGED <<config, provider>>

\* a list_request that sends the request again when the body does not parse
list_request_body_resending(t) ==
    LET o == op[t] IN
    /\ o.pc = "bytes"
    /\ o.kind = "list_request"
    /\ \E b \in BodyOutcomes :
        IF b \in {"malformed", "bad_key"}
        THEN /\ op' = [op EXCEPT ![t] = [o EXCEPT !.body = b, !.pc = "send"]]
             /\ UNCHANGED <<uploads, walk>>
        ELSE Return(t, [o EXCEPT !.body = b],
                CASE b = "read_error" -> Err(From(ResponseBodyError(o)))
                  [] b = "valid"      -> Ok(list_request_ok(Unwrap(o.response))))
    /\ UNCHANGED <<config, provider, allocated>>

\* list_request after send_retry: read the body, parse it, split off the token
list_request_body(t) ==
    LET o == op[t] IN
    /\ o.pc = "bytes"
    /\ o.kind = "list_request"
    /\ \E b \in BodyOutcomes :
        Return(t, [o EXCEPT !.body = b],
            CASE b = "read_error" -> Err(From(ResponseBodyError(o)))
              [] b = "malformed"  -> Err(From(InvalidResponseError(o)))
              [] b = "bad_key"    -> Err(ConversionError)
              [] b = "valid"      -> Ok(list_request_ok(Unwrap(o.response))))
    /\ UNCHANGED <<config, provider, allocated>>

\* a create_multipart that returns the id it has cached from the client's
\* first create
create_multipart_body_cached_id(t) ==
    LET o == op[t] IN
    /\ o.pc = "bytes"
    /\ o.kind = "create_multipart"
    /\ \E b \in BodyOutcomes \ {"bad_key"} :
        Return(t, [o EXCEPT !.body = b],
            CASE b = "read_error" -> Err(From(ResponseBodyError(o)))
              [] b = "malformed"  -> Err(From(InvalidResponseError(o)))
              [] b = "valid"      -> Ok(UploadIdSeq[1]))
    /\ UNCHANGED <<config, provider, allocated>>

\* create_multipart after send_retry: read the body, parse it, return the id
create_multipart_body(t) ==
    LET o == op[t] IN
    /\ o.pc = "bytes"
    /\ o.kind = "create_multipart"
    /\ \E b \in BodyOutcomes \ {"bad_key"} :
        Return(t, [o EXCEPT !.body = b],
            CASE b = "read_error" -> Err(From(ResponseBodyError(o)))
              [] b = "malformed"  -> Err(From(InvalidResponseError(o)))
              [] b = "valid"      -> Ok(Unwrap(o.response).upload_id))
    /\ UNCHANGED <<config, provider, allocated>>

\* the caller takes the result of its call (for a stream: the item yielded)
take_result(t) ==
    /\ op[t].pc = "done"
    /\ op' = [op EXCEPT ![t] = IdleOp]
    /\ UNCHANGED <<config, provider, allocated, uploads, walk>>

\* the credential provider publishes a new snapshot
refresh ==
    /\ provider < Len(Credentials)
    /\ provider' = provider + 1
    /\ UNCHANGED <<config, allocated, uploads, op, walk>>

\* ------------------------------------------------------- specifications
S3Configs ==
    [region : {"us-east-1"}, endpoint : {"https://s3"}, bucket : {"bucket"},
     bucket_endpoint : {"https://s3/bucket"},
     retry_config : {[max_retries |-> MaxRetries]},
     sign_payload : BOOLEAN, checksum : {None, Some("SHA256")}]

InitWith(configs) ==
    /\ config \in configs
    /\ provider = 1
    /\ allocated = 0
    /\ uploads = [u \in UploadIds |->
                    [state |-> "Uninitiated", failed |-> FALSE,
                     parts |-> [n \in PartNumbers |-> None]]]
    /\ op = [t \in Tasks |-> IdleOp]
    /\ walk = [t \in Tasks |-> NoWalk]

Init == InitWith(S3Configs)

\* every operation, with few inputs each
Next ==
    \/ \E path \in Paths, options \in Ranges, head \in BOOLEAN :
            get_request("t1", path, options, head)
    \/ \E path \in Paths, bytes \in {None} \cup {Some(x) : x \in Payloads}, query \in Queries :
            put_request("t1", path, bytes, query)
    \/ \E path \in Paths, query \in Queries : delete_request("t1", path, query)
    \/ \E from \in Paths, to \in Paths : copy_request("t1", from, to)
    \/ \E location \in Paths : create_multipart("t1", location)
    \/ \E parts \in {<<>>, <<[content_id |-> "E1"]>>} :
            complete_multipart("t1", PathA, "u1", parts)
    \/ \E pages \in 1..2 : list_paginated("t1", Some(PathA), TRUE, None, pages)
    \/ poll_next("t1")
    \/ drop_stream("t1")
    \/ get_credential("t1")
    \/ send_retry("t1")
    \/ list_request_body("t1")
    \/ create_multipart_body("t1")
    \/ take_result("t1")
    \/ refresh

Spec == Init /\ [][Next]_vars

\* pagination walks
InitList == InitWith({c \in S3Configs : c.sign_payload /\ c.checksum = None})

NextList ==
    \/ \E prefix \in {None, Some(PathA)}, delimiter \in BOOLEAN,
          offset \in {None, Some(PathB)}, pages \in 1..MaxPages :
            list_paginated("t1", prefix, delimiter, offset, pages)
    \/ poll_next("t1")
    \/ drop_stream("t1")
    \/ get_credential("t1")
    \/ send_retry("t1")
    \/ list_request_body("t1")
    \/ take_result("t1")
    \/ refresh

SpecList == InitList /\ [][NextList]_vars

\* the multipart calls
NextMultipart ==
    \/ \E location \in Paths : create_multipart("t1", location)
    \/ \E location \in Paths, upload_id \in UploadIds, parts \in PartLists :
            complete_multipart("t1", location, upload_id, parts)
    \/ get_credential("t1")
    \/ send_retry("t1")
    \/ create_multipart_body("t1")
    \/ take_result("t1")
    \/ refresh

SpecMultipart == InitList /\ [][NextMultipart]_vars

\* ================================================================ claims
CredIndex(c) == CHOOSE i \in 1..Len(Credentials) : Credentials[i] = c

Signature(attempt) == Unwrap(attempt.authorization)

\* C1: every send attempt after the first carries a signature computed after
\* the attempt before it had failed; no signature is sent on a later attempt.
C1_SignatureComputedPerAttempt ==
    \A t \in Tasks : \A k \in 2..Len(op[t].attempts) :
        Signature(op[t].attempts[k]).date >= op[t].attempts[k - 1].at

\* C2: an attempt that follows a failed one is signed with a snapshot at least
\* as new as the one the provider served when the failed attempt was sent
\* (C1 then C2 after one failed attempt: the second attempt is signed with C2).
C2_AttemptSignedWithCurrentSnapshot ==
    \A t \in Tasks : \A k \in 2..Len(op[t].attempts) :
        CredIndex(Signature(op[t].attempts[k]).credential)
            >= CredIndex(op[t].attempts[k - 1].current)

\* the entries of a serialised completion manifest, read back from the body
ManifestEntries(body) ==
    [i \in 1..((Len(body) - 1) \div 5) |->
        [part_number |-> body[5 * i + 1], e_tag |-> body[5 * i - 1]]]

NumberedByPosition(body, parts) ==
    LET entries == ManifestEntries(body)
    IN /\ Len(entries) = Len(parts)
       /\ \A i \in 1..Len(parts) :
            entries[i] = [part_number |-> ToString(i), e_tag |-> parts[i].content_id]

\* C3: the completion manifest of N parts has exactly N entries in the
\* caller's order, entry i being (part number i, entity tag of part i), in the
\* body serialised at the call and in the request sent.
C3_ManifestNumbersByPosition ==
    \A t \in Tasks :
        op[t].kind = "complete_multipart" =>
            /\ NumberedByPosition(op[t].args.body, op[t].args.parts)
            /\ IsSome(op[t].request.authorization) =>
                    /\ IsSome(op[t].request.body)
                    /\ NumberedByPosition(Unwrap(op[t].request.body), op[t].args.parts)

C3_Witness ==
    \E t \in Tasks :
        /\ op[t].kind = "complete_multipart"
        /\ Len(op[t].attempts) >= 1
        /\ Len(op[t].args.parts) = 2
        /\ op[t].args.parts[1].content_id = "E2"
        /\ op[t].args.parts[2].content_id = "E1"

AllPages(w) == \A i \in 1..Len(w.yielded) : w.yielded[i].ok

\* C4: a walk ends exactly when a page comes without a token: while it has
\* yielded only pages, it goes on as long as fewer than the server's n pages
\* were yielded, and once it has ended it has issued n requests and yielded
\* pages 1..n, each once; after the end no request is issued.
C4_WalkEndsAtTokenlessPage ==
    \A t \in Tasks :
        LET w == walk[t] IN
        /\ (Walking(t) /\ AllPages(w)) => Len(w.yielded) < w.pages
        /\ (w.status = "Done" /\ AllPages(w)) =>
                /\ Len(w.requests) = w.pages
                /\ Len(w.yielded) = w.pages
                /\ \A i \in 1..Len(w.yielded) : w.yielded[i].value.objects = <<i>>
        /\ w.status = "Done" =>
                /\ Len(w.requests) <= Len(w.yielded)
                /\ op[t].pc \in {"idle", "done"}

C4_Witness ==
    \E t \in Tasks :
        /\ walk[t].status = "Done"
        /\ walk[t].pages = 3
        /\ AllPages(walk[t])
        /\ Len(walk[t].yielded) = 3
        /\ Len(walk[t].requests) = 3

WithoutToken(q) == SelectSeq(q, LAMBDA kv : kv[1] /= "continuation-token")

FixedParameters(q, seed) ==
    /\ QueryGet(q, "prefix") = seed.prefix
    /\ QueryGet(q, "start-after") = seed.offset
    /\ QueryGet(q, "delimiter") = (IF seed.delimiter THEN Some(<<DELIMITER>>) ELSE None)

\* C5: every list request of a walk carries the prefix, delimiter and offset
\* the walk was seeded with, and consecutive requests differ in the token only.
C5_WalkKeepsFixedParameters ==
    \A t \in Tasks :
        LET w == walk[t] IN
        /\ \A i \in 1..Len(w.requests) : FixedParameters(w.requests[i], w.seed)
        /\ \A i \in 1..(Len(w.requests) - 1) :
                /\ WithoutToken(w.requests[i]) = WithoutToken(w.requests[i + 1])
                /\ QueryGet(w.requests[i], "continuation-token")
                        /= QueryGet(w.requests[i + 1], "continuation-token")
        /\ (op[t].kind = "list_request" /\ Len(op[t].attempts) > 0 /\ w.status /= "None") =>
                /\ Len(w.requests) > 0
                /\ op[t].request.query = w.requests[Len(w.requests)]

C5_Witness ==
    \E t \in Tasks :
        /\ walk[t].seed = [prefix |-> Some(<<"a", "/">>), offset |-> Some(PathB),
                           delimiter |-> TRUE]
        /\ Len(walk[t].requests) = 3
        /\ Len(op[t].attempts) > 0

RequestVariants ==
    {"GetRequest", "PutRequest", "DeleteRequest", "CopyRequest", "ListRequest",
     "CreateMultipartRequest", "CompleteMultipartRequest"}

\* an error that wraps a failure of send_retry under an operation's name
IsRequestError(e) ==
    \/ "type" \in DOMAIN e.source /\ e.source.type = "retry"
    \/ "variant" \in DOMAIN e.source /\ e.source.variant \in RequestVariants

\* an error raised by the body of a response that was received
IsResponseBodyError(e) ==
    \/ "variant" \in DOMAIN e.source
            /\ e.source.variant \in {"ListResponseBody", "InvalidListResponse"}
    \/ e = ConversionError

\* C6: a list response that was received and does not decode into a list
\* result makes list_request return a response-body error, not a request
\* error, with no request sent beyond the one that was answered.
C6_ListDecodeFailureNotRetried ==
    \A t \in Tasks :
        LET o == op[t] IN
        (o.kind = "list_request" /\ o.body \in {"malformed", "bad_key"}) =>
            /\ o.pc = "done"
            /\ ~Unwrap(o.result).ok
            /\ IsResponseBodyError(Unwrap(o.result).error)
            /\ ~IsRequestError(Unwrap(o.result).error)
            /\ Len(o.attempts) = o.retries + 1

C6_Witness ==
    \E t \in Tasks :
        /\ op[t].kind = "list_request"
        /\ op[t].body = "malformed"
        /\ op[t].retries = 1
        /\ Unwrap(op[t].result).error.source.variant = "InvalidListResponse"

\* the operation an error names: the variant it wraps, when it wraps one
OperationNamedBy(e) ==
    IF "variant" \in DOMAIN e.source
    THEN CASE e.source.variant \in {"GetRequest", "GetResponseBody"} -> Some("get_request")
           [] e.source.variant = "PutRequest" -> Some("put_request")
           [] e.source.variant = "DeleteRequest" -> Some("delete_request")
           [] e.source.variant = "CopyRequest" -> Some("copy_request")
           [] e.source.variant \in {"ListRequest", "ListResponseBody", "InvalidListResponse"} ->
                Some("list_request")
           [] e.source.variant \in {"CreateMultipartRequest", "CreateMultipartResponseBody",
                                    "InvalidMultipartResponse"} -> Some("create_multipart")
           [] e.source.variant = "CompleteMultipartRequest" -> Some("complete_multipart")
           [] OTHER -> None
    ELSE None

\* the path an error carries, itself or in the error it wraps
PathNamedBy(e) ==
    IF IsSome(e.path) THEN e.path
    ELSE IF "path" \in DOMAIN e.source THEN e.source.path
    ELSE None

PathScoped ==
    {"get_request", "put_request", "delete_request", "copy_request",
     "create_multipart", "complete_multipart"}

PathApplied(o) ==
    CASE o.kind \in {"get_request", "put_request", "delete_request"} -> o.args.path
      [] o.kind = "copy_request" -> o.args.from
      [] o.kind \in {"create_multipart", "complete_multipart"} -> o.args.location

\* C7: a failure returned once a request was sent names, in the public error,
\* the operation attempted and, for a path-scoped operation, its path.
\* (The failures of the credential provider are the subject of C8.)
C7_FailureNamesOperationAndPath ==
    \A t \in Tasks :
        LET o == op[t] IN
        (o.pc = "done" /\ ~Unwrap(o.result).ok /\ Len(o.attempts) > 0) =>
            /\ OperationNamedBy(Unwrap(o.result).error) = Some(o.kind)
            /\ o.kind \in PathScoped =>
                    PathNamedBy(Unwrap(o.result).error) = Some(PathApplied(o))

\* C8: no request is sent before the credential is fetched, and a call whose
\* credential fetch failed returns the provider's error as it is and has sent
\* nothing.
C8_CredentialFailureSendsNothing ==
    \A t \in Tasks :
        LET o == op[t] IN
        /\ Len(o.attempts) > 0 => IsSome(o.credential)
        /\ IsSome(o.request.authorization) => IsSome(o.credential)
        /\ (o.pc = "done" /\ ~IsSome(o.credential)) =>
                /\ o.result = Some(Err(ProviderError))
                /\ o.attempts = <<>>
                /\ o.request = NoRequest

C8_Witness ==
    \E t \in Tasks :
        /\ op[t].kind = "complete_multipart"
        /\ op[t].pc = "done"
        /\ ~IsSome(op[t].credential)
        /\ op[t].result = Some(Err(ProviderError))

SendsCompletion(t) ==
    /\ op'[t].kind = "complete_multipart"
    /\ op[t].kind = "complete_multipart"
    /\ Len(op'[t].attempts) > Len(op[t].attempts)

\* C9: a session only moves Uninitiated -> Created -> Completed, and a
\* completion request is sent only for an upload id whose session is Created
\* (returned by a create, not yet completed).
C9_CompletionOnlyInCreated ==
    [][ /\ \A u \in UploadIds :
            uploads'[u].state /= uploads[u].state =>
                <<uploads[u].state, uploads'[u].state>>
                    \in {<<"Uninitiated", "Created">>, <<"Created", "Completed">>}
        /\ \A t \in Tasks :
            SendsCompletion(t) => uploads[op[t].args.upload_id].state = "Created"
      ]_vars

CompletionFails(t) ==
    /\ op[t].kind = "complete_multipart"
    /\ op[t].pc /= "done"
    /\ op'[t].pc = "done"
    /\ ~Unwrap(op'[t].result).ok

\* C10: a completion that fails leaves the session of its upload id as it
\* was (Created stays Created), and a completion sent for an upload id after
\* one that failed carries the manifest of its own part list, numbered from 1.
C10_FailedCompletionCanBeRetried ==
    [][ \A t \in Tasks :
            /\ CompletionFails(t) =>
                    /\ uploads'[op[t].args.upload_id].state = uploads[op[t].args.upload_id].state
                    /\ uploads'[op[t].args.upload_id].failed
            /\ (SendsCompletion(t) /\ uploads[op[t].args.upload_id].failed) =>
                    /\ IsSome(op'[t].request.body)
                    /\ NumberedByPosition(Unwrap(op'[t].request.body), op'[t].args.parts)
      ]_vars

C10_Witness ==
    \E t \in Tasks :
        /\ op[t].kind = "complete_multipart"
        /\ op[t].pc = "send"
        /\ Len(op[t].attempts) = 1
        /\ uploads[op[t].args.upload_id].state = "Created"
        /\ uploads[op[t].args.upload_id].failed
        /\ Len(op[t].args.parts) = 2

EndedWithError(w) == Len(w.yielded) > 0 /\ ~w.yielded[Len(w.yielded)].ok

IsPrefixOf(a, b) == Len(a) <= Len(b) /\ SubSeq(b, 1, Len(a)) = a

\* C11: when the list request for page k of a walk fails, the walk yields
\* that error as its k-th item and ends: the k - 1 items before it are the
\* server's pages 1..k-1 and stay as they were yielded, and after the error
\* the walk is polled no more and issues no list request.
C11_PageFailureEndsWalk ==
    /\ [](\A t \in Tasks :
            LET w == walk[t]
                k == Len(w.yielded)
            IN /\ \A i \in 1..(k - 1) :
                    w.yielded[i].ok /\ w.yielded[i].value.objects = <<i>>
               /\ EndedWithError(w) =>
                    /\ w.status = "Done"
                    /\ w.polled = k
                    /\ Len(w.requests) <= k
                    /\ op[t].pc \in {"idle", "done"}
               /\ (/\ op[t].kind = "list_request"
                   /\ op[t].pc = "done"
                   /\ ~Unwrap(op[t].result).ok
                   /\ w.status /= "None") =>
                    /\ k = w.polled
                    /\ w.yielded[k] = Unwrap(op[t].result))
    /\ [][\A t \in Tasks :
            (walk[t].status /= "None" /\ walk'[t].status /= "None") =>
                /\ IsPrefixOf(walk[t].yielded, walk'[t].yielded)
                /\ EndedWithError(walk[t]) =>
                    /\ walk'[t] = walk[t]
                    /\ op'[t].kind /= "list_request" \/ op'[t] = op[t]
       ]_vars

C11_Witness ==
    \E t \in Tasks :
        /\ walk[t].pages = 3
        /\ walk[t].status = "Done"
        /\ Len(walk[t].yielded) = 2
        /\ walk[t].yielded[1].ok
        /\ EndedWithError(walk[t])
        /\ Len(walk[t].requests) = 2
        /\ walk[t].polled = 2
        /\ op[t].pc = "idle"

\* the async runtime keeps driving a call that can take a step, and every
\* attempt sent gets an outcome
Fairness ==
    /\ WF_vars(get_credential("t1"))
    /\ WF_vars(send_retry("t1"))
    /\ WF_vars(list_request_body("t1"))
    /\ WF_vars(create_multipart_body("t1"))

SpecLive == Init /\ [][Next]_vars /\ Fairness

Pending(t) == op[t].pc \in {"credential", "send", "bytes"}

Retryable(status) == status \in {503, 0}

\* C12: with a finite retry limit every operation returns. It sends again
\* only after a retryable failure and while the limit is not reached, sends
\* nothing after a success, and returns an error when the last attempt failed
\* terminally or failed with the limit reached.
C12_EveryOperationReturns ==
    /\ [](\A t \in Tasks :
            LET o == op[t]
                n == Len(o.attempts)
                limit == config.retry_config.max_retries
            IN /\ n <= limit + 1
               /\ \A k \in 1..(n - 1) : Retryable(o.attempts[k].status)
               /\ (o.pc = "send" /\ n > 0) =>
                    Retryable(o.attempts[n].status) /\ n <= limit
               /\ o.pc = "bytes" => o.attempts[n].status = 200
               /\ (o.pc = "done" /\ n > 0) =>
                    IF o.attempts[n].status = 200
                    THEN Unwrap(o.result).ok <=> (ReadsBody(o) => o.body = "valid")
                    ELSE /\ ~Unwrap(o.result).ok
                         /\ Retryable(o.attempts[n].status) => n = limit + 1)
    /\ \A t \in Tasks : Pending(t) ~> (op[t].pc = "done")

C12_Witness ==
    \E t \in Tasks :
        /\ op[t].kind = "put_request"
        /\ op[t].pc = "done"
        /\ Len(op[t].attempts) = 2
        /\ op[t].attempts[1].status = 503
        /\ op[t].attempts[2].status = 200
        /\ Unwrap(op[t].result).ok

\* two tasks, each holding one walk of the same client over its own listing
WalkOf(t) ==
    IF t = "t1"
    THEN [prefix |-> Some(PathA), delimiter |-> TRUE, offset |-> None]
    ELSE [prefix |-> Some(PathB), delimiter |-> FALSE, offset |-> Some(PathA)]

NextWalks ==
    \E t \in Tasks :
        \/ list_paginated(t, WalkOf(t).prefix, WalkOf(t).delimiter, WalkOf(t).offset, 2)
        \/ poll_next(t)
        \/ get_credential(t)
        \/ send_retry(t)
        \/ list_request_body(t)
        \/ take_result(t)

SpecWalks == InitList /\ [][NextWalks]_vars

\* the i-th list request of a walk that runs alone: its seed, and the token
\* of the page before
RequestAlone(w, i) ==
    list_request_query(w.seed.prefix, w.seed.delimiter,
                       IF i = 1 THEN None ELSE w.responses[i - 1].next_continuation_token,
                       w.seed.offset)

TokensReceived(w) ==
    {w.responses[i].next_continuation_token : i \in 1..Len(w.responses)} \ {None}

TokensSent(w) ==
    {QueryGet(w.requests[i], "continuation-token") : i \in 1..Len(w.requests)} \ {None}

\* C13: under every interleaving of two walks of one client, each walk issues
\* the list requests and yields the pages it would alone: request i is built
\* from its own seed and the token of its own page i - 1, the server answers
\* it with page i of its own listing, and no token received by one walk is
\* sent by the other.
C13_WalksDoNotInterfere ==
    \A t \in Tasks :
        LET w == walk[t] IN
        /\ \A i \in 1..Len(w.requests) : w.requests[i] = RequestAlone(w, i)
        /\ \A i \in 1..Len(w.responses) :
                w.responses[i].next_continuation_token =
                    (IF i < w.pages THEN Some(TokenFor(w.requests[i], i)) ELSE None)
        /\ \A i \in 1..Len(w.yielded) :
                w.yielded[i].ok => w.yielded[i].value.objects = <<i>>
        /\ \A u \in Tasks \ {t} : TokensSent(w) \cap TokensReceived(walk[u]) = {}

C13_Witness ==
    /\ Len(walk["t1"].requests) = 2
    /\ Len(walk["t2"].requests) = 2
    /\ op["t1"].pc = "send"
    /\ op["t2"].pc = "bytes"
    /\ TokensSent(walk["t1"]) /= {}
    /\ TokensSent(walk["t2"]) /= {}
    /\ TokensSent(walk["t1"]) /= TokensSent(walk["t2"])

\* logical paths over characters the encoder treats differently: kept as they
\* are, encoded, and the escape character itself
PathChars == {"a", "/", " ", "%", "2", "0"}
LogicalPaths == SeqsUpTo(PathChars, MaxLen)

NextEncode ==
    \/ \E from \in LogicalPaths : \E to \in {from, PathA} : copy_request("t1", from, to)
    \/ get_credential("t1")
    \/ send_retry("t1")
    \/ take_result("t1")

SpecEncode == InitList /\ [][NextEncode]_vars

Encoded == {" ", "%", "?"}

\* the percent-decoder: %XY becomes the character whose code is XY, anything
\* else stands for itself
RECURSIVE percent_decode(_)
percent_decode(s) ==
    IF s = <<>> THEN <<>>
    ELSE IF /\ Head(s) = "%"
            /\ Len(s) >= 3
            /\ \E c \in Encoded : HexOf(c) = <<s[2], s[3]>>
         THEN <<CHOOSE c \in Encoded : HexOf(c) = <<s[2], s[3]>> >>
              \o percent_decode(SubSeq(s, 4, Len(s)))
         ELSE <<Head(s)>> \o percent_decode(Tail(s))

CopySource(request) == QueryGet(request.headers, "x-amz-copy-source")

\* C14: in a signed copy request the URL is the bucket endpoint, "/" and a
\* string that decodes to the destination path, the copy-source header is the
\* bucket, "/" and a string that decodes to the source path, and when the two
\* paths are the same path the two encoded strings are the same string.
C14_EncodePathRoundTrip ==
    \A t \in Tasks :
        LET o == op[t]
            url == o.request.url
            source == Unwrap(CopySource(o.request))
        IN (o.kind = "copy_request" /\ IsSome(o.request.authorization)) =>
            /\ IsSome(CopySource(o.request))
            /\ SubSeq(url, 1, 2) = <<config.bucket_endpoint, "/">>
            /\ SubSeq(source, 1, 2) = <<config.bucket, "/">>
            /\ percent_decode(SubSeq(url, 3, Len(url))) = o.args.to
            /\ percent_decode(SubSeq(source, 3, Len(source))) = o.args.from
            /\ o.args.from = o.args.to =>
                    SubSeq(url, 3, Len(url)) = SubSeq(source, 3, Len(source))

C14_Witness ==
    \E t \in Tasks :
        /\ op[t].kind = "copy_request"
        /\ op[t].args.from = <<"%", "2", "0">>
        /\ op[t].args.to = <<"%", "2", "0">>
        /\ Len(op[t].attempts) = 1
        /\ Unwrap(CopySource(op[t].request)) =
                <<config.bucket, "/", "%", "2", "5", "2", "0">>

TokenSent(q) == QueryGet(q, "continuation-token")

\* C15: the first list request of a walk carries no token and request k + 1
\* carries the token of the response to request k, which had one; what
\* list_request returns as the token is the response's NextContinuationToken
\* (absent when the response has none), the page it returns has no token
\* field, and the stream keeps that token for its next request.
C15_TokenThreadedThroughWalk ==
    \A t \in Tasks :
        LET w == walk[t]
            o == op[t]
        IN /\ \A i \in 1..Len(w.requests) :
                IF i = 1
                THEN TokenSent(w.requests[i]) = None
                ELSE /\ IsSome(w.responses[i - 1].next_continuation_token)
                     /\ TokenSent(w.requests[i]) = w.responses[i - 1].next_continuation_token
           /\ (o.kind = "list_request" /\ o.pc = "done" /\ Unwrap(o.result).ok) =>
                LET v == Unwrap(o.result).value
                IN /\ v.token = Unwrap(o.response).next_continuation_token
                   /\ "next_continuation_token" \notin DOMAIN v.result
                   /\ w.status /= "None" =>
                        /\ w.token = v.token
                        /\ w.responses[Len(w.responses)].next_continuation_token = v.token

C15_Witness ==
    \E t \in Tasks :
        /\ Len(walk[t].requests) = 3
        /\ TokenSent(walk[t].requests[2]) = Some(TokenFor(walk[t].requests[1], 1))
        /\ TokenSent(walk[t].requests[3]) = Some(TokenFor(walk[t].requests[2], 2))
        /\ op[t].pc = "done"
        /\ Unwrap(op[t].result).ok
        /\ Unwrap(op[t].result).value.token = None
        /\ walk[t].token = None

InFlight(t) == op[t].kind = "list_request" /\ Pending(t)

Unconsumed(t) == op[t].kind = "list_request" /\ op[t].pc = "done"

\* C16: a walk issues a list request only when it is polled, and it is polled
\* for page k + 1 only once page k was yielded and taken by the caller: the
\* requests issued never outnumber the polls, every poll but one in flight has
\* yielded its item, a page fetched and not yet taken excludes a request in
\* flight, and a walk that was never polled has issued nothing.
C16_WalkIsPullBased ==
    /\ [](\A t \in Tasks :
            LET w == walk[t] IN
            /\ w.status /= "None" =>
                /\ Len(w.requests) <= w.polled
                /\ w.polled = Len(w.yielded) + (IF InFlight(t) THEN 1 ELSE 0)
                /\ Unconsumed(t) => ~InFlight(t)
                /\ w.polled = 0 => (w.requests = <<>> /\ op[t] = IdleOp)
            /\ op[t].kind = "list_request" => w.polled > 0)
    /\ [][\A t \in Tasks :
            walk'[t].polled > walk[t].polled =>
                /\ op[t] = IdleOp
                /\ walk[t].polled = Len(walk[t].yielded)
                /\ walk'[t].polled = walk[t].polled + 1
       ]_vars

C16_Witness ==
    \E t \in Tasks :
        /\ walk[t].status = "HasMore"
        /\ walk[t].polled = 2
        /\ Len(walk[t].yielded) = 2
        /\ Len(walk[t].requests) = 2
        /\ Unconsumed(t)

\* put_request under every checksum configuration
PutConfigs ==
    {[c EXCEPT !.checksum = k] : c \in S3Configs, k \in {None} \cup {Some(x) : x \in Checksums}}

NextPut ==
    \/ \E path \in Paths, bytes \in {None, Some("x"), Some("y")}, query \in Queries :
            put_request("t1", path, bytes, query)
    \/ get_credential("t1")
    \/ send_retry("t1")
    \/ take_result("t1")

SpecPut == InitWith(PutConfigs) /\ [][NextPut]_vars

ChecksumHeaders(request) ==
    {i \in 1..Len(request.headers) :
        request.headers[i][1] \in {header_name(k) : k \in Checksums}}

\* C17: a signed put request has a checksum header exactly when it has a
\* payload and a checksum kind is configured, and then exactly one, named by
\* the kind and carrying base64(digest(payload)); the signer is given the raw
\* digest as the payload hash exactly when, in addition, the kind is SHA256,
\* and no payload hash otherwise.
C17_PutChecksumHeaderAndPayloadHash ==
    \A t \in Tasks :
        LET o == op[t]
            a == o.args
            signed == Unwrap(o.request.authorization)
            attached == IsSome(a.bytes) /\ IsSome(config.checksum)
        IN (o.kind = "put_request" /\ IsSome(o.request.authorization)) =>
            /\ IF attached
               THEN /\ Cardinality(ChecksumHeaders(o.request)) = 1
                    /\ QueryGet(o.request.headers, header_name(Unwrap(config.checksum)))
                        = Some(BASE64_STANDARD_encode(
                                digest(Unwrap(config.checksum), Unwrap(a.bytes))))
               ELSE ChecksumHeaders(o.request) = {}
            /\ signed.payload_sha256 =
                    (IF attached /\ Unwrap(config.checksum) = "SHA256"
                     THEN Some(digest("SHA256", Unwrap(a.bytes)))
                     ELSE None)
            /\ o.request.body = a.bytes

C17_Witness ==
    \E t \in Tasks :
        /\ op[t].kind = "put_request"
        /\ config.checksum = Some("CRC32C")
        /\ op[t].args.bytes = Some("y")
        /\ Len(op[t].attempts) = 1
        /\ Cardinality(ChecksumHeaders(op[t].request)) = 1
        /\ Unwrap(op[t].request.authorization).payload_sha256 = None

\* create and complete, the caller completing only upload ids it was given
NextOrphan ==
    \/ \E location \in Paths : create_multipart("t1", location)
    \/ \E upload_id \in {u \in UploadIds : uploads[u].state /= "Uninitiated"},
          parts \in {<<>>, <<[content_id |-> "E1"]>>} :
            complete_multipart("t1", PathA, upload_id, parts)
    \/ get_credential("t1")
    \/ send_retry("t1")
    \/ create_multipart_body("t1")
    \/ take_result("t1")

SpecOrphan == InitList /\ [][NextOrphan]_vars

\* the upload ids the server has issued
Allocated == {UploadIdSeq[i] : i \in 1..allocated}

\* an id in a response the client has received and not yet returned
Held(u) ==
    \E t \in Tasks :
        /\ op[t].kind = "create_multipart"
        /\ op[t].pc = "bytes"
        /\ Unwrap(op[t].response).upload_id = u

\* issued by the server, never returned to a caller
Orphaned(u) == u \in Allocated /\ uploads[u].state = "Uninitiated" /\ ~Held(u)

Accepted(status) == status \in {200, 0}

\* C18: every attempt of create_multipart the server accepts, its response
\* lost or not, allocates one more upload id; create_multipart returns the id
\* of the response it received; no request names an orphaned id, and an
\* orphaned id stays orphaned.
C18_LostCreateOrphansUploadId ==
    /\ [](\A t \in Tasks :
            LET o == op[t] IN
            /\ (o.kind = "create_multipart" /\ o.pc = "done" /\ Unwrap(o.result).ok) =>
                    /\ Unwrap(o.result).value = Unwrap(o.response).upload_id
                    /\ Unwrap(o.result).value = UploadIdSeq[allocated]
                    /\ o.attempts[Len(o.attempts)].status = 200
            /\ \A u \in UploadIds :
                    QueryGet(o.request.query, "uploadId") = Some(u) => ~Orphaned(u))
    /\ [][/\ \A t \in Tasks :
                (op[t].kind = "create_multipart" /\ Len(op'[t].attempts) > Len(op[t].attempts)) =>
                    allocated' = allocated +
                        (IF Accepted(op'[t].attempts[Len(op'[t].attempts)].status) THEN 1 ELSE 0)
          /\ allocated' >= allocated
          /\ \A u \in UploadIds : Orphaned(u) => Orphaned(u)'
       ]_vars

C18_Witness ==
    \E t \in Tasks :
        /\ op[t].kind = "create_multipart"
        /\ op[t].pc = "done"
        /\ Len(op[t].attempts) = 2
        /\ op[t].attempts[1].status = 0
        /\ op[t].attempts[2].status = 200
        /\ op[t].result = Some(Ok("u2"))
        /\ uploads["u2"].state = "Created"
        /\ Orphaned("u1")

\* one multipart upload: a create, then the two tasks upload parts under
\* pairwise distinct part numbers, each number once, and when no upload is
\* in progress a task completes with the accepted parts in an order it picks
Uploading(n, u) ==
    \E t \in Tasks :
        /\ ~Ready(t)
        /\ IsPartUpload(op[t])
        /\ PartNumberOf(op[t]) = n
        /\ QueryGet(op[t].args.query, "uploadId") = Some(u)

AcceptedETags(u) ==
    {Unwrap(uploads[u].parts[n]) : n \in {m \in PartNumbers : IsSome(uploads[u].parts[m])}}

SuppliedOrders(u) ==
    {parts \in PartLists :
        /\ Len(parts) = Cardinality(AcceptedETags(u))
        /\ {parts[i].content_id : i \in 1..Len(parts)} = AcceptedETags(u)}

NextParts ==
    \/ allocated = 0 /\ create_multipart("t1", PathA)
    \/ create_multipart_body("t1")
    \/ \E t \in Tasks :
        \/ \E n \in PartNumbers, u \in UploadIds :
                /\ uploads[u].state = "Created"
                /\ ~IsSome(uploads[u].parts[n])
                /\ ~Uploading(n, u)
                /\ put_request(t, PathA, Some(PartPayload(n)), PartQuery(n, u))
        \/ \E u \in UploadIds : \E parts \in SuppliedOrders(u) :
                /\ uploads[u].state = "Created"
                /\ parts /= <<>>
                /\ \A other \in Tasks : Ready(other)
                /\ complete_multipart(t, PathA, u, parts)
        \/ get_credential(t)
        \/ send_retry(t)
        \/ take_result(t)

SpecParts == InitList /\ [][NextParts]_vars

\* each entry of the manifest pairs an entity tag with the part number under
\* which the part with that tag was uploaded
PairedAsUploaded(body, u) ==
    LET entries == ManifestEntries(body)
    IN \A i \in 1..Len(entries) :
        \E n \in PartNumbers :
            /\ ToString(n) = entries[i].part_number
            /\ uploads[u].parts[n] = Some(entries[i].e_tag)

\* the parts are supplied in ascending order of the numbers they were
\* uploaded under, 1..N
InUploadOrder(parts, u) ==
    /\ \A i \in 1..Len(parts) : i \in PartNumbers
    /\ \A i \in 1..Len(parts) : uploads[u].parts[i] = Some(parts[i].content_id)

\* C19 as stated: in whatever order the caller supplies the accepted parts,
\* each entity tag in the manifest is paired with the number its part was
\* uploaded under.
C19_PairedInEveryOrder ==
    \A t \in Tasks :
        (op[t].kind = "complete_multipart" /\ Len(op[t].attempts) > 0) =>
            PairedAsUploaded(Unwrap(op[t].request.body), op[t].args.upload_id)

\* C19, amended: for every interleaving in which the concurrent uploads
\* finish, when the caller supplies the accepted parts in ascending order of
\* the numbers they were uploaded under (1..N), each entity tag in the
\* manifest sent is paired with the number its part was uploaded under.
C19_PairedWhenSuppliedInUploadOrder ==
    \A t \in Tasks :
        (/\ op[t].kind = "complete_multipart"
         /\ Len(op[t].attempts) > 0
         /\ InUploadOrder(op[t].args.parts, op[t].args.upload_id)) =>
            /\ Len(ManifestEntries(Unwrap(op[t].request.body))) = Len(op[t].args.parts)
            /\ PairedAsUploaded(Unwrap(op[t].request.body), op[t].args.upload_id)

C19_Witness ==
    \E t \in Tasks :
        /\ op[t].kind = "complete_multipart"
        /\ Len(op[t].attempts) > 0
        /\ Len(op[t].args.parts) = 2
        /\ InUploadOrder(op[t].args.parts, op[t].args.upload_id)
        /\ uploads[op[t].args.upload_id].parts[1] = Some("E1")
        /\ uploads[op[t].args.upload_id].parts[2] = Some("E2")

\* C20: whether a walk goes on is decided by the token of the page alone,
\* whatever IsTruncated says: after a page with a token the walk has more and
\* its next request carries that token, after a page without one the walk is
\* done and issues no further request.
C20_ContinuationDecidedByToken ==
    \A t \in Tasks :
        LET w == walk[t]
            o == op[t]
        IN /\ (/\ o.kind = "list_request"
               /\ o.pc = "done"
               /\ Unwrap(o.result).ok
               /\ w.status /= "None") =>
                /\ w.status = (IF IsSome(Unwrap(o.response).next_continuation_token)
                               THEN "HasMore" ELSE "Done")
                /\ w.token = Unwrap(o.response).next_continuation_token
           /\ \A i \in 1..Len(w.responses) :
                IF IsSome(w.responses[i].next_continuation_token)
                THEN /\ i = Len(w.yielded) => w.status = "HasMore"
                     /\ i < Len(w.requests) =>
                            TokenSent(w.requests[i + 1]) = w.responses[i].next_continuation_token
                ELSE /\ i = Len(w.responses)
                     /\ Len(w.requests) = i
                     /\ w.status = "Done"

C20_Witness ==
    \E t \in Tasks :
        /\ Len(walk[t].responses) = 2
        /\ ~walk[t].responses[1].is_truncated
        /\ IsSome(walk[t].responses[1].next_continuation_token)
        /\ TokenSent(walk[t].requests[2]) = walk[t].responses[1].next_continuation_token
        /\ walk[t].responses[2].is_truncated
        /\ ~IsSome(walk[t].responses[2].next_continuation_token)
        /\ walk[t].status = "Done"
        /\ Len(walk[t].requests) = 2

====
